---- MODULE Spec2Model ----
(***************************************************************************)
(* A model of the pre-rendering pipeline of vite-plugin-ssr                *)
(* (src/vite-plugin-ssr/node/prerender.ts): the orchestrator prerender(),  *)
(* its fan-out phases run through one shared p-limit limiter, the hook     *)
(* result normaliser, the page context store, the output writer and the    *)
(* two coverage checks.                                                    *)
(*                                                                         *)
(* JavaScript runs the units on one thread and switches between them only  *)
(* at an await, so every action below is the code between two awaits.      *)
(***************************************************************************)
EXTENDS Integers, Sequences, FiniteSets, TLC

(***************************************************************************)
(* Bounds and the small input sets.                                        *)
(***************************************************************************)
\* Largest concurrency ceiling tried (vitePluginSsr.prerender.parallel).
MaxParallel == 2

\* Longest array a prerender() hook returns in the normaliser's own
\* specification.
MaxLen == 2

\* globalContext._allPageIds (the inventory of page ids), in the order of
\* globalContext._pageFilesAll.
PageOrder == <<"p1", "p2", "_error">>
Pages == {PageOrder[i] : i \in 1..Len(PageOrder)}

\* isErrorPage(pageId): the page id of the _error page.
isErrorPage(pageId) == pageId = "_error"

\* The pages that have a route: loadPageRoutes() leaves the error page out.
RoutedPages == {p \in Pages : ~isErrorPage(p)}

\* URLs are strings: sequences of characters.
UrlA == <<"/", "a">>
UrlB == <<"/", "b">>
Url404 == <<"/", "4", "0", "4">>
NoSlash == <<"a">>
ParamRoute == <<"/", ":", "i", "d">>

\* The JavaScript null of a string-valued field (a page id, a file path).
null == "null"

\* A page's .page.server file path, used as _prerenderSourceFile.
filePath(p) == p

(***************************************************************************)
(* Objects with user keys are sets of <<key, value>> pairs with one pair   *)
(* per key; a nullable object is <<>> (null) or <<object>>.                *)
(***************************************************************************)
KeysOf(o) == {kv[1] : kv \in o}

\* A shallow merge in which the target's keys are kept.
objectAssignFirstWins(target, source) ==
    target \cup {kv \in source : kv[1] \notin KeysOf(target)}

\* objectAssign(target, source): the shallow Object.assign, the source's
\* keys overwriting the target's.
objectAssign(target, source) ==
    {kv \in target : kv[1] \notin KeysOf(source)} \cup source

\* url.startsWith('/')
startsWithSlash(s) == Len(s) > 0 /\ s[1] = "/"

(***************************************************************************)
(* The values a prerender() hook can return.  An element of the result is  *)
(* described by what typeof, isPlainObject and hasProp see of it.          *)
(***************************************************************************)
NoValue == [type |-> "undefined", str |-> <<>>, data |-> {}]
StringValue(s) == [type |-> "string", str |-> s, data |-> {}]
NumberValue == [type |-> "number", str |-> <<>>, data |-> {}]
NullValue == [type |-> "null", str |-> <<>>, data |-> {}]
ObjectValue(d) == [type |-> "object", str |-> <<>>, data |-> d]

\* A bare string element.
StringElement(s) ==
    [type |-> "string", str |-> s, props |-> {}, url |-> NoValue,
     pageContext |-> NoValue]

\* A plain object element with the own properties `props`.
ObjectElement(props, url, pageContext) ==
    [type |-> "object", str |-> <<>>, props |-> props, url |-> url,
     pageContext |-> pageContext]

\* An element that is neither a string nor a plain object.
NumberElement ==
    [type |-> "number", str |-> <<>>, props |-> {}, url |-> NoValue,
     pageContext |-> NoValue]

UsageError(file) == [ok |-> FALSE, kind |-> "usage", file |-> file, pairs |-> <<>>]
Normalized(pairs) == [ok |-> TRUE, kind |-> "none", file |-> null, pairs |-> pairs]

\* typeof x === 'object' of hasProp(obj, prop, 'object')
typeofObject(v) == v.type \in {"object", "null"}

\* normalize(prerenderElement): one element to a {url, pageContext} pair, or
\* the usage error of the first assertUsage that fails.
normalize(e, prerenderSourceFile) ==
    IF e.type = "string"
    THEN Normalized(<<[url |-> e.str, pageContext |-> <<>>]>>)
    ELSE IF e.type # "object" THEN UsageError(prerenderSourceFile)
    ELSE IF "url" \notin e.props THEN UsageError(prerenderSourceFile)
    ELSE IF e.url.type # "string" THEN UsageError(prerenderSourceFile)
    ELSE IF ~startsWithSlash(e.url.str) THEN UsageError(prerenderSourceFile)
    ELSE IF e.props \ {"url", "pageContext"} # {} THEN UsageError(prerenderSourceFile)
    ELSE IF "pageContext" \in e.props /\ ~typeofObject(e.pageContext)
         THEN UsageError(prerenderSourceFile)
    ELSE Normalized(<<[url |-> e.url.str,
                       pageContext |-> IF "pageContext" \in e.props
                                          /\ e.pageContext.type = "object"
                                       THEN <<e.pageContext.data>> ELSE <<>>]>>)

\* normalizePrerenderResult(prerenderResult, prerenderSourceFile): an array
\* is mapped element by element, anything else is one element; the first
\* failing element throws.
normalizePrerenderResult(raw, prerenderSourceFile) ==
    LET n == Len(raw.elems)
        each == [i \in 1..n |-> normalize(raw.elems[i], prerenderSourceFile)]
    IN  IF \E i \in 1..n : ~each[i].ok
        THEN UsageError(prerenderSourceFile)
        ELSE Normalized([i \in 1..n |-> each[i].pairs[1]])

Single(e) == [isArray |-> FALSE, elems |-> <<e>>]
Array(es) == [isArray |-> TRUE, elems |-> es]


(***************************************************************************)
(* State.                                                                  *)
(***************************************************************************)
VARIABLES
    phase,                  \* where prerender() stands: the call it awaits
    error,                  \* the error prerender() rejected with, if any
    parallel,               \* vitePluginSsr.prerender.parallel
    queue,                  \* p-limit: the units waiting for a slot, in order
    activeCount,            \* p-limit: the units holding a slot
    pc,                     \* every submitted unit's position
    thrown,                 \* the error each rejected unit threw
    fileExports,            \* p.fileExports of each .page.server file
    hookReturns,            \* what the prerender() hooks returned, in order
    doNotPrerenderList,     \* the exclusion list
    prerenderPageContexts,  \* globalContext.prerenderPageContexts
    pageRoutes,             \* loadPageRoutes(): each page's route
    htmlFiles,              \* the rendered documents
    routeResult,            \* what route() returned to each routing unit
    prerenderPageIds,       \* the rendered page ids, in insertion order
    usesClientRouter,       \* globalContext._usesClientRouter, once read
    partial,                \* vitePluginSsr.prerender.partial, once read
    onPagePrerender,        \* whether the caller gave a sink, once read
    warned,                 \* the pages warnMissingPages warned about
    deprecatedOptions,      \* the deprecated options prerender() was called with
    deprecationWarnings,    \* the options checkOutdatedOptions warned about
    globalContext,          \* the user keys of the shared globalContext
    globalContextAddendum,  \* what onBeforePrerender() returned, once called
    sinkCalls,              \* how often onPagePrerender() was called for each file
    fsCalls,                \* how often mkdir() and writeFile() were called for each file
    prerenderResult         \* pageContext._prerenderResult of each document's context

vars == <<phase, error, parallel, queue, activeCount, pc, thrown, fileExports,
          hookReturns, doNotPrerenderList, prerenderPageContexts, pageRoutes,
          htmlFiles, routeResult, prerenderPageIds, usesClientRouter, partial,
          onPagePrerender, warned, deprecatedOptions, deprecationWarnings,
          globalContext, globalContextAddendum, sinkCalls, fsCalls,
          prerenderResult>>

limiter == <<queue, activeCount, pc, thrown>>

called == <<deprecatedOptions, deprecationWarnings>>
global == <<globalContext, globalContextAddendum>>
output == <<sinkCalls, fsCalls, prerenderResult>>
config == <<parallel, usesClientRouter, partial, onPagePrerender, called, global>>
phase1 == <<fileExports, hookReturns, doNotPrerenderList>>
phase4 == <<htmlFiles, routeResult, prerenderPageIds>>

\* An option of the run: not read yet, or read with its value.
Unread == <<>>
Read(b) == <<b>>
Options == {Read(b) : b \in BOOLEAN}

NoError == [kind |-> "none", url |-> <<>>, file |-> null]
usageError(url, file) == [kind |-> "usage", url |-> url, file |-> file]
internalError == [kind |-> "internal", url |-> <<>>, file |-> null]
upstreamError == [kind |-> "upstream", url |-> <<>>, file |-> null]

\* A unit of work handed to concurrencyLimit().
HookUnit(p) == [k |-> "hook", p |-> p, i |-> 0, ext |-> ""]
StaticUnit(p) == [k |-> "static", p |-> p, i |-> 0, ext |-> ""]
RouteUnit(i) == [k |-> "route", p |-> "", i |-> i, ext |-> ""]
WriteUnit(i, ext) == [k |-> "write", p |-> "", i |-> i, ext |-> ext]

Units == DOMAIN pc
UnitsOf(k) == {u \in Units : u.k = k}
Settled == {"done", "failed"}
Running == {u \in Units : pc[u] \notin Settled \cup {"queued"}}

(***************************************************************************)
(* The limiter, concurrencyLimit = pLimit(parallel).                       *)
(***************************************************************************)
\* The ceiling handed to pLimit().
concurrencyOffByOne == parallel + 1

concurrency == parallel

\* The head of the queue starts when a slot is free.
canStart(u) == queue # <<>> /\ Head(queue) = u /\ activeCount < concurrency

\* concurrencyLimit(fn): the unit joins the queue.
enqueue(us) ==
    /\ queue' = queue \o us
    /\ pc' = pc @@ [u \in {us[i] : i \in 1..Len(us)} |-> "queued"]
    /\ UNCHANGED thrown

\* The unit at the head takes a slot and runs to its first await, `at`.
start(u, at) ==
    /\ canStart(u)
    /\ queue' = Tail(queue)
    /\ activeCount' = activeCount + 1
    /\ pc' = [pc EXCEPT ![u] = at]
    /\ UNCHANGED thrown

\* The unit goes on to its next await.
goto(u, at) ==
    /\ pc' = [pc EXCEPT ![u] = at]
    /\ UNCHANGED <<queue, activeCount, thrown>>

\* A limiter that keeps the slot of a fulfilled unit.
finishHoldingSlot(u) ==
    /\ pc' = [pc EXCEPT ![u] = "done"]
    /\ UNCHANGED <<queue, activeCount, thrown>>

\* The unit's promise is fulfilled and its slot is given back.
finish(u) ==
    /\ pc' = [pc EXCEPT ![u] = "done"]
    /\ activeCount' = activeCount - 1
    /\ UNCHANGED <<queue, thrown>>

\* A batch that swallows the rejection: prerender() goes on waiting.
rejectSwallowed(e) ==
    /\ error' = error
    /\ phase' = phase

\* prerender() rejects: with the first error that reaches it, and it starts
\* no later phase.
reject(e) ==
    /\ error' = IF error.kind = "none" THEN e ELSE error
    /\ phase' = "aborted"

\* The unit throws: its promise is rejected, its slot is given back, and the
\* rejection reaches prerender() through Promise.all.
throw(u, e) ==
    /\ pc' = [pc EXCEPT ![u] = "failed"]
    /\ thrown' = thrown @@ (u :> e)
    /\ activeCount' = activeCount - 1
    /\ UNCHANGED queue
    /\ reject(e)

(***************************************************************************)
(* checkOutdatedOptions: the deprecated options of prerender().            *)
(***************************************************************************)
BooleanValue == [type |-> "boolean", str |-> <<>>, data |-> {}]

\* The options a caller has not given.
NoOptions ==
    [partial |-> NoValue, noExtraDir |-> NoValue, parallel |-> NoValue,
     base |-> NoValue, root |-> NoValue, outDir |-> NoValue]

\* The deprecated options a caller may give: root as an absolute path, a
\* relative path or a number, outDir as a string or a number.
DeprecatedOptions ==
    [partial : {NoValue, BooleanValue}, noExtraDir : {NoValue, BooleanValue},
     parallel : {NoValue, NumberValue}, base : {NoValue, StringValue(UrlA)},
     root : {NoValue, StringValue(UrlA), StringValue(NoSlash), NumberValue},
     outDir : {NoValue, StringValue(NoSlash), NumberValue}]

\* options[prop] !== undefined
given(options, prop) == options[prop].type # "undefined"

\* path.isAbsolute(root), for a posix path.
isAbsolute(s) == startsWithSlash(s)

\* A check that also refuses outDir.
checkOutdatedOptionsRefusingOutDir(options) ==
    IF \E prop \in {"noExtraDir", "partial", "parallel", "outDir"} : given(options, prop)
    THEN [ok |-> FALSE, warnings |-> {}]
    ELSE LET warnings == {prop \in {"base", "root"} : given(options, prop)}
         IN  IF given(options, "root") /\ options.root.type # "string"
             THEN [ok |-> FALSE, warnings |-> warnings]
             ELSE IF given(options, "root") /\ ~isAbsolute(options.root.str)
             THEN [ok |-> FALSE, warnings |-> warnings]
             ELSE [ok |-> TRUE, warnings |-> warnings]

\* checkOutdatedOptions(options): assertUsage refuses noExtraDir, partial and
\* parallel; assertWarning warns once about each of base, root and outDir;
\* then root must be an absolute path string and outDir a string.
checkOutdatedOptions(options) ==
    IF \E prop \in {"noExtraDir", "partial", "parallel"} : given(options, prop)
    THEN [ok |-> FALSE, warnings |-> {}]
    ELSE LET warnings == {prop \in {"base", "root", "outDir"} : given(options, prop)}
         IN  IF given(options, "root") /\ options.root.type # "string"
             THEN [ok |-> FALSE, warnings |-> warnings]
             ELSE IF given(options, "root") /\ ~isAbsolute(options.root.str)
             THEN [ok |-> FALSE, warnings |-> warnings]
             ELSE IF given(options, "outDir") /\ options.outDir.type # "string"
             THEN [ok |-> FALSE, warnings |-> warnings]
             ELSE [ok |-> TRUE, warnings |-> warnings]

\* prerender() is called: checkOutdatedOptions(deprecatedOptions) comes first.
CheckOutdatedOptions ==
    /\ phase = "called"
    /\ LET checked == checkOutdatedOptions(deprecatedOptions)
       IN  /\ deprecationWarnings' = checked.warnings
           /\ IF checked.ok
              THEN phase' = "start" /\ UNCHANGED error
              ELSE reject(usageError(<<>>, null))
    /\ UNCHANGED <<limiter, activeCount, parallel, usesClientRouter, partial,
                   onPagePrerender, deprecatedOptions, global, phase1,
                   prerenderPageContexts, pageRoutes, phase4, warned, output>>

(***************************************************************************)
(* Phase 1: callPrerenderHooks.                                            *)
(***************************************************************************)
ServerExports ==
    [doNotPrerender : BOOLEAN, prerender : {"undefined", "function"}]
      \cup {[doNotPrerender |-> FALSE, prerender |-> "notCallable"]}

Unloaded == [doNotPrerender |-> FALSE, prerender |-> "unloaded"]

\* What the hooks return in the runs of the whole pipeline: the example
\* ['/a', {url: '/b', pageContext: {x: 1}}] and an object without a valid url.
HookResults ==
    { Array(<<StringElement(UrlA),
              ObjectElement({"url", "pageContext"}, StringValue(UrlB),
                            ObjectValue({<<"x", 1>>}))>>),
      Single(ObjectElement({"url"}, StringValue(NoSlash), NoValue)) }

\* What the hooks return in the runs of the two discovery phases: also a
\* bare url, two objects for /a whose pageContexts share the key x, and a
\* bare string without a leading slash.
DiscoveryHookResults ==
    HookResults \cup
    { Single(StringElement(UrlA)),
      Single(ObjectElement({"url", "pageContext"}, StringValue(UrlA),
                           ObjectValue({<<"x", 1>>}))),
      Single(ObjectElement({"url", "pageContext"}, StringValue(UrlA),
                           ObjectValue({<<"x", 2>>, <<"y", 1>>}))),
      Single(StringElement(NoSlash)) }

\* The elements a hook result is made of in the runs of the normaliser.
Elements ==
    { StringElement(UrlA), StringElement(NoSlash), NumberElement,
      ObjectElement({}, NoValue, NoValue),
      ObjectElement({"url"}, StringValue(UrlA), NoValue),
      ObjectElement({"url"}, StringValue(NoSlash), NoValue),
      ObjectElement({"url"}, NumberValue, NoValue),
      ObjectElement({"url", "pageContext"}, StringValue(UrlB), ObjectValue({<<"x", 1>>})),
      ObjectElement({"url", "pageContext"}, StringValue(UrlA), NullValue),
      ObjectElement({"url", "pageContext"}, StringValue(UrlA), NumberValue),
      ObjectElement({"url", "extra"}, StringValue(UrlA), NoValue) }

\* Every hook result of at most MaxLen elements: one element, or an array.
RawResults ==
    {Single(e) : e \in Elements}
      \cup UNION {{Array(es) : es \in [1..n -> Elements]} : n \in 0..MaxLen}

\* { ...globalContext, _prerenderSourceFile, url }: the new context copies
\* the keys globalContext has when the context is created.
Ctx(url, file, pageId) ==
    [url |-> url, _prerenderSourceFile |-> file, data |-> {},
     _pageContextAlreadyProvidedByPrerenderHook |-> FALSE, _pageId |-> pageId,
     globalContext |-> globalContext]

\* prerenderPageContexts.find((pageContext) => pageContext.url === url):
\* the index of the first context of that url, 0 when there is none.
find(store, url) ==
    IF \E i \in 1..Len(store) : store[i].url = url
    THEN CHOOSE i \in 1..Len(store) :
            /\ store[i].url = url
            /\ \A j \in 1..(i - 1) : store[j].url # url
    ELSE 0

\* A forEach body in which the hook that merges last takes the provenance.
addPairOverwritingSource(store, pair, prerenderSourceFile) ==
    LET found == find(store, pair.url)
        created == IF found = 0
                   THEN Append(store, Ctx(pair.url, prerenderSourceFile, null))
                   ELSE [store EXCEPT ![found]._prerenderSourceFile = prerenderSourceFile]
        at == IF found = 0 THEN Len(created) ELSE found
    IN  IF pair.pageContext # <<>>
        THEN [created EXCEPT
                ![at].data = objectAssign(@, pair.pageContext[1]),
                ![at]._pageContextAlreadyProvidedByPrerenderHook = TRUE]
        ELSE created

\* The body of result.forEach for one pair: find or create the context of
\* the url, then merge a non-null pageContext into it.
addPair(store, pair, prerenderSourceFile) ==
    LET found == find(store, pair.url)
        created == IF found = 0
                   THEN Append(store, Ctx(pair.url, prerenderSourceFile, null))
                   ELSE store
        at == IF found = 0 THEN Len(created) ELSE found
    IN  IF pair.pageContext # <<>>
        THEN [created EXCEPT
                ![at].data = objectAssign(@, pair.pageContext[1]),
                ![at]._pageContextAlreadyProvidedByPrerenderHook = TRUE]
        ELSE created

\* result.forEach(...): the pairs in order; assert(url.startsWith('/'))
\* stops the loop with what was merged so far.
RECURSIVE forEachPair(_, _, _)
forEachPair(store, pairs, prerenderSourceFile) ==
    IF pairs = <<>> THEN [store |-> store, ok |-> TRUE]
    ELSE IF ~startsWithSlash(Head(pairs).url) THEN [store |-> store, ok |-> FALSE]
    ELSE forEachPair(addPair(store, Head(pairs), prerenderSourceFile),
                     Tail(pairs), prerenderSourceFile)

\* p.fileType === '.page.server': the pages of the inventory that have a
\* .page.server file.
hasServerFile(p) == p \in RoutedPages

\* prerender() calls callPrerenderHooks(): one unit per .page.server file.
CallPrerenderHooks ==
    /\ phase = "start"
    /\ enqueue(SelectSeq([i \in 1..Len(PageOrder) |-> HookUnit(PageOrder[i])],
                         LAMBDA u : hasServerFile(u.p)))
    /\ phase' = "callPrerenderHooks"
    /\ UNCHANGED <<error, activeCount, config, phase1, prerenderPageContexts,
                   pageRoutes, phase4, warned, output>>

\* A hook unit starts: await p.loadFile().
StartHookUnit(u) ==
    /\ u \in UnitsOf("hook")
    /\ start(u, "loadFile")
    /\ UNCHANGED <<phase, error, config, phase1, prerenderPageContexts,
                   pageRoutes, phase4, warned, output>>

\* The same without the return after doNotPrerenderList.push(...).
HookFileLoadedNotReturning(u) ==
    /\ u \in UnitsOf("hook") /\ pc[u] = "loadFile"
    /\ \E ex \in ServerExports :
        /\ fileExports' = [fileExports EXCEPT ![u.p] = ex]
        /\ doNotPrerenderList' = IF ex.doNotPrerender
                                 THEN Append(doNotPrerenderList, u.p)
                                 ELSE doNotPrerenderList
        /\ IF ex.prerender = "undefined"
           THEN finish(u) /\ UNCHANGED <<phase, error>>
           ELSE IF ex.prerender = "notCallable"
           THEN throw(u, usageError(<<>>, filePath(u.p)))
           ELSE goto(u, "prerender") /\ UNCHANGED <<phase, error>>
    /\ UNCHANGED <<config, hookReturns, prerenderPageContexts, pageRoutes,
                   phase4, warned, output>>

\* The file is loaded: a doNotPrerender page joins the exclusion list, a
\* page without a hook is done, otherwise prerender() is called.
HookFileLoaded(u) ==
    /\ u \in UnitsOf("hook") /\ pc[u] = "loadFile"
    /\ \E ex \in ServerExports :
        /\ fileExports' = [fileExports EXCEPT ![u.p] = ex]
        /\ IF ex.doNotPrerender
           THEN /\ doNotPrerenderList' = Append(doNotPrerenderList, u.p)
                /\ finish(u)
                /\ UNCHANGED <<phase, error>>
           ELSE IF ex.prerender = "undefined"
           THEN /\ finish(u)
                /\ UNCHANGED <<phase, error, doNotPrerenderList>>
           ELSE IF ex.prerender = "notCallable"
           THEN /\ throw(u, usageError(<<>>, filePath(u.p)))
                /\ UNCHANGED doNotPrerenderList
           ELSE /\ goto(u, "prerender")
                /\ UNCHANGED <<phase, error, doNotPrerenderList>>
    /\ UNCHANGED <<config, hookReturns, prerenderPageContexts, pageRoutes,
                   phase4, warned, output>>

\* The hook throws: throwPrerenderError rethrows it.
HookThrew(u) ==
    /\ u \in UnitsOf("hook") /\ pc[u] = "prerender"
    /\ throw(u, upstreamError)
    /\ UNCHANGED <<config, phase1, prerenderPageContexts, pageRoutes, phase4,
                   warned, output>>

\* The hook returns: the result is normalised and merged into the store.
HookReturned(u, results) ==
    /\ u \in UnitsOf("hook") /\ pc[u] = "prerender"
    /\ \E raw \in results :
        LET result == normalizePrerenderResult(raw, filePath(u.p))
            merged == forEachPair(prerenderPageContexts, result.pairs, filePath(u.p))
        IN  /\ hookReturns' = Append(hookReturns, [p |-> u.p, raw |-> raw])
            /\ IF ~result.ok
               THEN /\ throw(u, usageError(<<>>, result.file))
                    /\ UNCHANGED prerenderPageContexts
               ELSE /\ prerenderPageContexts' = merged.store
                    /\ IF merged.ok
                       THEN finish(u) /\ UNCHANGED <<phase, error>>
                       ELSE throw(u, internalError)
    /\ UNCHANGED <<config, fileExports, doNotPrerenderList, pageRoutes, phase4,
                   warned, output>>

(***************************************************************************)
(* Phase 2: handlePagesWithStaticRoutes.                                   *)
(***************************************************************************)
\* A Promise.race in its place would resolve with the first fulfilled unit.
batchResolvedEarly(k) == \E u \in UnitsOf(k) : pc[u] = "done"

\* Promise.all of a batch resolves once every unit of it is fulfilled.
batchResolved(k) == \A u \in UnitsOf(k) : pc[u] = "done"

FilesystemRoute(url) ==
    [pageRouteFile |-> FALSE, routeValue |-> NoValue, filesystemRoute |-> url]
RouteString(s) ==
    [pageRouteFile |-> TRUE, routeValue |-> StringValue(s), filesystemRoute |-> UrlB]
RouteFunction ==
    [pageRouteFile |-> TRUE, routeValue |-> [type |-> "function", str |-> <<>>, data |-> {}],
     filesystemRoute |-> UrlB]

Routes ==
    {FilesystemRoute(UrlA), RouteString(Url404), RouteString(ParamRoute),
     RouteFunction}

\* isStaticRoute(routeValue): no segment of the route string is a parameter.
isStaticRoute(s) == \A i \in 1..Len(s) : s[i] # ":"

\* The url handlePagesWithStaticRoutes derives for a page, <<>> when the
\* page's route is a Route Function or a parameterized Route String.
staticUrl(pageRoute) ==
    IF pageRoute.pageRouteFile
    THEN IF pageRoute.routeValue.type = "string" /\ isStaticRoute(pageRoute.routeValue.str)
         THEN <<pageRoute.routeValue.str>>
         ELSE <<>>
    ELSE <<pageRoute.filesystemRoute>>

inDoNotPrerenderList(pageId) ==
    \E i \in 1..Len(doNotPrerenderList) : doNotPrerenderList[i] = pageId

\* callPrerenderHooks() resolved; prerender() calls
\* handlePagesWithStaticRoutes(): await loadPageRoutes(), then one unit per
\* page route.
HandlePagesWithStaticRoutes ==
    /\ phase = "callPrerenderHooks"
    /\ batchResolved("hook")
    /\ \E routes \in [RoutedPages -> Routes] : pageRoutes' = routes
    /\ enqueue(SelectSeq([i \in 1..Len(PageOrder) |-> StaticUnit(PageOrder[i])],
                         LAMBDA u : u.p \in RoutedPages))
    /\ phase' = "handlePagesWithStaticRoutes"
    /\ UNCHANGED <<error, activeCount, config, phase1, prerenderPageContexts,
                   phase4, warned, output>>

\* A unit that starts and returns before its first await.
startAndReturn(u) ==
    /\ canStart(u)
    /\ queue' = Tail(queue)
    /\ pc' = [pc EXCEPT ![u] = "done"]
    /\ UNCHANGED <<activeCount, thrown>>

\* The same without the look at the exclusion list.
createsStaticContextOfExcluded(p) ==
    /\ staticUrl(pageRoutes[p]) # <<>>
    /\ find(prerenderPageContexts, staticUrl(pageRoutes[p])[1]) = 0

\* Whether the page's unit goes on to create a context: the page is not
\* excluded, has a static url, and the store holds no context of that url.
createsStaticContext(p) ==
    /\ ~inDoNotPrerenderList(p)
    /\ staticUrl(pageRoutes[p]) # <<>>
    /\ find(prerenderPageContexts, staticUrl(pageRoutes[p])[1]) = 0

\* A static-route unit starts: it returns at once, or awaits
\* loadPageFilesServer() for the context it is about to push.
StartStaticUnit(u) ==
    /\ u \in UnitsOf("static")
    /\ IF createsStaticContext(u.p)
       THEN start(u, "loadPageFilesServer")
       ELSE startAndReturn(u)
    /\ UNCHANGED <<phase, error, config, phase1, prerenderPageContexts,
                   pageRoutes, phase4, warned, output>>

\* loadPageFilesServer() returned: the context is pushed.
StaticContextLoaded(u) ==
    /\ u \in UnitsOf("static") /\ pc[u] = "loadPageFilesServer"
    /\ prerenderPageContexts' =
          Append(prerenderPageContexts, Ctx(staticUrl(pageRoutes[u.p])[1], null, u.p))
    /\ finish(u)
    /\ UNCHANGED <<phase, error, config, phase1, pageRoutes, phase4, warned, output>>

(***************************************************************************)
(* Phase 3: callOnBeforePrerenderHook, then phase 4: routeAndPrerender.    *)
(***************************************************************************)
\* pageContextInit, merged into globalContext before the first phase.
pageContextInit == {<<"g", 0>>}

\* What callOnBeforePrerenderHook() meets in the runs of the whole pipeline:
\* several hooks or an invalid result, or no hook or a hook that returns null.
OnBeforePrerenderResults ==
    { [valid |-> FALSE, globalContext |-> <<>>],
      [valid |-> TRUE, globalContext |-> <<>>] }

\* In the runs that end with phase 4: also a hook that returns
\* { globalContext: {g: 1, h: 1} }.
GlobalContextResults ==
    OnBeforePrerenderResults \cup
    { [valid |-> TRUE, globalContext |-> <<{<<"g", 1>>, <<"h", 1>>}>>] }

\* handlePagesWithStaticRoutes() resolved; callOnBeforePrerenderHook() runs
\* alone and rejects when there are several hooks or the hook returns an
\* invalid value; then routeAndPrerender() submits one unit per context.
CallOnBeforePrerenderHook(results) ==
    /\ phase = "handlePagesWithStaticRoutes"
    /\ batchResolved("static")
    /\ \E result \in results :
          IF result.valid
          THEN /\ phase' = "routeAndPrerender"
               /\ enqueue([i \in 1..Len(prerenderPageContexts) |-> RouteUnit(i)])
               /\ usesClientRouter' \in Options
               /\ globalContextAddendum' = result.globalContext
               /\ globalContext' =
                     IF result.globalContext = <<>> THEN globalContext
                     ELSE objectAssign(globalContext, result.globalContext[1])
               /\ UNCHANGED error
          ELSE /\ reject(usageError(<<>>, null))
               /\ UNCHANGED <<queue, pc, thrown, usesClientRouter, global>>
    /\ UNCHANGED <<activeCount, parallel, called, partial, onPagePrerender, phase1,
                   prerenderPageContexts, pageRoutes, phase4, warned, output>>

\* A routing unit starts: await route(pageContext).
StartRouteUnit(u) ==
    /\ u \in UnitsOf("route")
    /\ start(u, "route")
    /\ UNCHANGED <<phase, error, config, phase1, prerenderPageContexts,
                   pageRoutes, phase4, warned, output>>

\* A parameterized Route String matches a url of as many segments.
segments(s) == Cardinality({i \in 1..Len(s) : s[i] = "/"})

\* The pages whose route matches the url whatever their code does.
matching(url) ==
    {p \in RoutedPages :
        LET r == pageRoutes[p]
        IN  IF staticUrl(r) # <<>> THEN staticUrl(r)[1] = url
            ELSE r.routeValue.type = "string"
                 /\ startsWithSlash(url)
                 /\ segments(r.routeValue.str) = segments(url)}

\* The pages with a Route Function, which decides the match itself.
routeFunctions == {p \in RoutedPages : pageRoutes[p].routeValue.type = "function"}

\* route(pageContext): a page whose route matches, "null" when none
\* does, "hookError" when a Route Function throws.
routeResults(url) ==
    matching(url) \cup routeFunctions
      \cup (IF matching(url) = {} THEN {null} ELSE {})
      \cup (IF routeFunctions # {} THEN {"hookError"} ELSE {})

\* A usage error that names neither the url nor the file.
noMatchErrorUnnamed(pageContext) ==
    IF pageContext._prerenderSourceFile = null
    THEN internalError
    ELSE usageError(<<>>, null)

\* The error of a url that matches no page: assert(prerenderSourceFile)
\* comes before assertUsage(false, ...), which names the file and the url.
noMatchError(pageContext) ==
    IF pageContext._prerenderSourceFile = null
    THEN internalError
    ELSE usageError(pageContext.url, pageContext._prerenderSourceFile)

\* route() returned.
Routed(u) ==
    /\ u \in UnitsOf("route") /\ pc[u] = "route"
    /\ LET pageContext == prerenderPageContexts[u.i]
       IN  \E r \in routeResults(pageContext.url) :
            /\ routeResult' = routeResult @@ (u :> r)
            /\ IF r = "hookError"
               THEN /\ throw(u, upstreamError)
                    /\ UNCHANGED prerenderPageContexts
               ELSE IF r = null
               THEN /\ throw(u, noMatchError(pageContext))
                    /\ UNCHANGED prerenderPageContexts
               ELSE /\ prerenderPageContexts' =
                          [prerenderPageContexts EXCEPT ![u.i]._pageId = r]
                    /\ goto(u, "prerenderPage")
                    /\ UNCHANGED <<phase, error>>
    /\ UNCHANGED <<config, phase1, pageRoutes, htmlFiles, prerenderPageIds, warned, output>>

\* prerenderPageIds[pageId] = pageContext
setPrerenderPageId(ids, pageId, i) ==
    IF \E j \in 1..Len(ids) : ids[j].pageId = pageId
    THEN [j \in 1..Len(ids) |->
            IF ids[j].pageId = pageId THEN [pageId |-> pageId, ctx |-> i] ELSE ids[j]]
    ELSE Append(ids, [pageId |-> pageId, ctx |-> i])

\* loadPageFilesServer() and prerenderPage() returned: the document is
\* appended and the page id recorded.
Rendered(u) ==
    /\ u \in UnitsOf("route") /\ pc[u] = "prerenderPage"
    /\ LET pageContext == prerenderPageContexts[u.i]
       IN   /\ htmlFiles' = Append(htmlFiles,
                  [url |-> pageContext.url, pageContext |-> u.i,
                   pageContextSerialized |-> usesClientRouter[1],
                   doNotCreateExtraDirectory |-> FALSE,
                   pageId |-> pageContext._pageId])
            /\ prerenderPageIds' =
                  setPrerenderPageId(prerenderPageIds, pageContext._pageId, u.i)
    /\ finish(u)
    /\ UNCHANGED <<phase, error, config, phase1, prerenderPageContexts,
                   pageRoutes, routeResult, warned, output>>

\* The renderer throws.
RenderThrew(u) ==
    /\ u \in UnitsOf("route") /\ pc[u] = "prerenderPage"
    /\ throw(u, upstreamError)
    /\ UNCHANGED <<config, phase1, prerenderPageContexts, pageRoutes, phase4,
                   warned, output>>

(***************************************************************************)
(* warnContradictoryNoPrerenderList, phase 5: prerender404Page, and the    *)
(* output writer.                                                          *)
(***************************************************************************)
\* The entries of prerenderPageIds whose page is in the exclusion list.
contradictions ==
    {j \in 1..Len(prerenderPageIds) : inDoNotPrerenderList(prerenderPageIds[j].pageId)}

\* The error the first contradictory entry raises: assert(_prerenderSourceFile)
\* comes before assertUsage(false, ...).
contradictionError ==
    LET j == CHOOSE j \in contradictions : \A k \in contradictions : j <= k
        pageContext == prerenderPageContexts[prerenderPageIds[j].ctx]
    IN  IF pageContext._prerenderSourceFile = null
        THEN internalError
        ELSE usageError(pageContext.url, pageContext._prerenderSourceFile)

\* A contradiction check that warns and lets the run go on.
WarnContradictoryNoPrerenderListOnlyWarning ==
    /\ phase = "routeAndPrerender"
    /\ batchResolved("route")
    /\ phase' = "prerender404Page"
    /\ UNCHANGED <<error, limiter, config, phase1, prerenderPageContexts, pageRoutes,
                   phase4, warned, output>>

\* routeAndPrerender() resolved; warnContradictoryNoPrerenderList() runs.
WarnContradictoryNoPrerenderList ==
    /\ phase = "routeAndPrerender"
    /\ batchResolved("route")
    /\ IF contradictions # {}
       THEN reject(contradictionError)
       ELSE phase' = "prerender404Page" /\ UNCHANGED error
    /\ UNCHANGED <<limiter, config, phase1, prerenderPageContexts, pageRoutes,
                   phase4, warned, output>>

\* A lookup that sees only a document without page id.
has404Overlooked(files) ==
    \E i \in 1..Len(files) : files[i].url = Url404 /\ files[i].pageId = null

\* htmlFiles.find(({ url }) => url === '/404')
has404(files) == \E i \in 1..Len(files) : files[i].url = Url404

\* The document of renderStatic404Page().
Static404 ==
    [url |-> Url404, pageContext |-> 0, pageContextSerialized |-> FALSE,
     doNotCreateExtraDirectory |-> TRUE, pageId |-> null]

\* writeHtmlFile's two assertions on a document.
writeAsserts(file) == startsWithSlash(file.url) /\ ~inDoNotPrerenderList(file.pageId)

\* The .html file alone, whatever the serialized context.
writeJobsHtmlOnly(files, i) ==
    IF ~writeAsserts(files[i]) THEN <<>> ELSE <<WriteUnit(i, ".html")>>

\* The write units writeHtmlFile submits for document i: the .html file and,
\* with a serialized context, the .pageContext.json file.
writeJobs(files, i) ==
    IF ~writeAsserts(files[i]) THEN <<>>
    ELSE IF files[i].pageContextSerialized
    THEN <<WriteUnit(i, ".html"), WriteUnit(i, ".pageContext.json")>>
    ELSE <<WriteUnit(i, ".html")>>

RECURSIVE allWriteJobs(_, _)
allWriteJobs(files, i) ==
    IF i > Len(files) THEN <<>> ELSE writeJobs(files, i) \o allWriteJobs(files, i + 1)

\* prerender404Page() appends the 404 document when no document has the
\* url /404 and the renderer gives one; then writeHtmlFile() is called for
\* every document.
Prerender404Page ==
    /\ phase = "prerender404Page"
    /\ onPagePrerender' \in Options
    /\ \E rendered \in BOOLEAN :
        LET files == IF ~has404(htmlFiles) /\ rendered
                     THEN Append(htmlFiles, Static404) ELSE htmlFiles
        IN  /\ rendered => ~has404(htmlFiles)
            /\ htmlFiles' = files
            /\ enqueue(allWriteJobs(files, 1))
            /\ IF \A i \in 1..Len(files) : writeAsserts(files[i])
               THEN phase' = "writeHtmlFile" /\ UNCHANGED error
               ELSE reject(internalError)
    /\ UNCHANGED <<activeCount, parallel, called, global, usesClientRouter, partial, phase1,
                   prerenderPageContexts, pageRoutes, routeResult,
                   prerenderPageIds, warned, output>>

\* renderStatic404Page() throws: prerender() rejects before any write is
\* submitted.
Render404Threw ==
    /\ phase = "prerender404Page"
    /\ ~has404(htmlFiles)
    /\ reject(upstreamError)
    /\ UNCHANGED <<limiter, config, phase1, prerenderPageContexts, pageRoutes,
                   phase4, warned, output>>

\* The calls counted per file: a file is a document and an extension.
count(calls, f) == IF f \in DOMAIN calls THEN calls[f] ELSE 0
withCall(calls, f) ==
    [g \in DOMAIN calls \cup {f} |-> count(calls, g) + IF g = f THEN 1 ELSE 0]

File(u) == [i |-> u.i, ext |-> u.ext]
FsCall(op, u) == [op |-> op, i |-> u.i, ext |-> u.ext]

\* { filePath, fileContent } of a write: the path is made of the document's
\* url and the file extension, the content is the document's htmlString or
\* its pageContextSerialized.
PrerenderResult(u) ==
    [filePath |-> [url |-> htmlFiles[u.i].url, ext |-> u.ext],
     fileContent |-> File(u)]

\* The pageContext object writeHtmlFile() hands to the writes of document i.
pageContextOf(i) == htmlFiles[i].pageContext

\* objectAssign(pageContext, { _prerenderResult }) on that object.
assignPrerenderResult(u) ==
    [c \in DOMAIN prerenderResult \cup {pageContextOf(u.i)} |->
        IF c = pageContextOf(u.i) THEN PrerenderResult(u) ELSE prerenderResult[c]]

\* A write unit starts: with a sink it calls onPagePrerender(pageContext),
\* without one mkdir(dirname(filePath)).
StartWriteUnit(u) ==
    /\ u \in UnitsOf("write")
    /\ IF onPagePrerender = Read(TRUE)
       THEN /\ start(u, "onPagePrerender")
            /\ sinkCalls' = withCall(sinkCalls, File(u))
            /\ prerenderResult' = assignPrerenderResult(u)
            /\ UNCHANGED fsCalls
       ELSE /\ start(u, "mkdir")
            /\ fsCalls' = withCall(fsCalls, FsCall("mkdir", u))
            /\ UNCHANGED <<sinkCalls, prerenderResult>>
    /\ UNCHANGED <<phase, error, config, phase1, prerenderPageContexts,
                   pageRoutes, phase4, warned>>

\* mkdir() returned: writeFile(filePath, fileContent) is called.
MkdirReturned(u) ==
    /\ u \in UnitsOf("write") /\ pc[u] = "mkdir"
    /\ goto(u, "writeFile")
    /\ fsCalls' = withCall(fsCalls, FsCall("writeFile", u))
    /\ UNCHANGED <<phase, error, config, phase1, prerenderPageContexts,
                   pageRoutes, phase4, warned, sinkCalls, prerenderResult>>

\* The sink or writeFile() returned.
WriteFinished(u) ==
    /\ u \in UnitsOf("write") /\ pc[u] \in {"onPagePrerender", "writeFile"}
    /\ finish(u)
    /\ UNCHANGED <<phase, error, config, phase1, prerenderPageContexts,
                   pageRoutes, phase4, warned, output>>

(***************************************************************************)
(* warnMissingPages.                                                       *)
(***************************************************************************)
isPrerendered(pageId) ==
    \E j \in 1..Len(prerenderPageIds) : prerenderPageIds[j].pageId = pageId

\* The same without the isErrorPage filter.
missingPagesNoErrorPageFilter ==
    {p \in Pages : ~isPrerendered(p) /\ ~inDoNotPrerenderList(p)}

\* The pages that pass the three filters of warnMissingPages.
missingPages ==
    {p \in Pages : ~isPrerendered(p) /\ ~inDoNotPrerenderList(p) /\ ~isErrorPage(p)}

\* warnMissingPages() called without awaiting the writes.
WarnMissingPagesNotAwaitingWrites ==
    /\ phase = "writeHtmlFile"
    /\ partial' \in Options
    /\ warned' = IF partial'[1] THEN {} ELSE missingPages
    /\ phase' = "done"
    /\ UNCHANGED <<error, limiter, parallel, called, global, usesClientRouter, onPagePrerender,
                   phase1, prerenderPageContexts, pageRoutes, phase4, output>>

\* Every write resolved; warnMissingPages() warns unless the run is partial.
WarnMissingPages ==
    /\ phase = "writeHtmlFile"
    /\ batchResolved("write")
    /\ partial' \in Options
    /\ warned' = IF partial'[1] THEN {} ELSE missingPages
    /\ phase' = "done"
    /\ UNCHANGED <<error, limiter, parallel, called, global, usesClientRouter, onPagePrerender,
                   phase1, prerenderPageContexts, pageRoutes, phase4, output>>

\* The state of a run before its first phase.
Constructed ==
    /\ error = NoError
    /\ parallel \in 1..MaxParallel
    /\ usesClientRouter = Unread
    /\ partial = Unread
    /\ onPagePrerender = Unread
    /\ queue = <<>>
    /\ activeCount = 0
    /\ pc = <<>>
    /\ thrown = <<>>
    /\ fileExports = [p \in Pages |-> Unloaded]
    /\ hookReturns = <<>>
    /\ doNotPrerenderList = <<>>
    /\ prerenderPageContexts = <<>>
    /\ pageRoutes = <<>>
    /\ htmlFiles = <<>>
    /\ routeResult = <<>>
    /\ prerenderPageIds = <<>>
    /\ warned = {}
    /\ deprecationWarnings = {}
    /\ globalContext = pageContextInit
    /\ globalContextAddendum = <<>>
    /\ sinkCalls = <<>>
    /\ fsCalls = <<>>
    /\ prerenderResult = <<>>

\* prerender() called without deprecated options: checkOutdatedOptions()
\* has nothing to refuse or to warn about.
Init ==
    /\ Constructed
    /\ deprecatedOptions = NoOptions
    /\ phase = "start"

Next ==
    \/ CallPrerenderHooks
    \/ \E u \in Units : StartHookUnit(u)
    \/ \E u \in Units : HookFileLoaded(u)
    \/ \E u \in Units : HookThrew(u)
    \/ \E u \in Units : HookReturned(u, HookResults)
    \/ HandlePagesWithStaticRoutes
    \/ \E u \in Units : StartStaticUnit(u)
    \/ \E u \in Units : StaticContextLoaded(u)
    \/ CallOnBeforePrerenderHook(OnBeforePrerenderResults)
    \/ \E u \in Units : StartRouteUnit(u)
    \/ \E u \in Units : Routed(u)
    \/ \E u \in Units : Rendered(u)
    \/ \E u \in Units : RenderThrew(u)
    \/ WarnContradictoryNoPrerenderList
    \/ Prerender404Page
    \/ Render404Threw
    \/ \E u \in Units : StartWriteUnit(u)
    \/ \E u \in Units : MkdirReturned(u)
    \/ \E u \in Units : WriteFinished(u)
    \/ WarnMissingPages

Spec == Init /\ [][Next]_vars

\* The two discovery phases alone, with more hook results.
NextDiscovery ==
    \/ CallPrerenderHooks
    \/ \E u \in Units : StartHookUnit(u)
    \/ \E u \in Units : HookFileLoaded(u)
    \/ \E u \in Units : HookThrew(u)
    \/ \E u \in Units : HookReturned(u, DiscoveryHookResults)
    \/ HandlePagesWithStaticRoutes
    \/ \E u \in Units : StartStaticUnit(u)
    \/ \E u \in Units : StaticContextLoaded(u)

SpecDiscovery == Init /\ [][NextDiscovery]_vars

\* The hook phase alone, with every hook result of the normaliser's sets.
NextNormalize ==
    \/ CallPrerenderHooks
    \/ \E u \in Units : StartHookUnit(u)
    \/ \E u \in Units : HookFileLoaded(u)
    \/ \E u \in Units : HookThrew(u)
    \/ \E u \in Units : HookReturned(u, RawResults)

SpecNormalize == Init /\ [][NextNormalize]_vars

\* The run up to the end of phase 4, with an onBeforePrerender() hook that
\* adds to the global context.
NextRender ==
    \/ CallPrerenderHooks
    \/ \E u \in Units : StartHookUnit(u)
    \/ \E u \in Units : HookFileLoaded(u)
    \/ \E u \in Units : HookThrew(u)
    \/ \E u \in Units : HookReturned(u, HookResults)
    \/ HandlePagesWithStaticRoutes
    \/ \E u \in Units : StartStaticUnit(u)
    \/ \E u \in Units : StaticContextLoaded(u)
    \/ CallOnBeforePrerenderHook(GlobalContextResults)
    \/ \E u \in Units : StartRouteUnit(u)
    \/ \E u \in Units : Routed(u)
    \/ \E u \in Units : Rendered(u)
    \/ \E u \in Units : RenderThrew(u)

SpecRender == Init /\ [][NextRender]_vars

\* prerender() called with deprecated options, up to its first phase.
InitOptions ==
    /\ Constructed
    /\ deprecatedOptions \in DeprecatedOptions
    /\ phase = "called"

NextOptions ==
    \/ CheckOutdatedOptions
    \/ CallPrerenderHooks

SpecOptions == InitOptions /\ [][NextOptions]_vars

\* The steps of the submitted units. The event loop runs every continuation
\* that is ready, and the calls a unit awaits (loadFile, the hooks, route,
\* the renderer, the sink, the file system) return or throw: a unit that can
\* take a step eventually takes one. Every such step moves the unit in pc.
stepOf(u) ==
    \/ StartHookUnit(u) \/ HookFileLoaded(u) \/ HookThrew(u)
    \/ HookReturned(u, HookResults)
    \/ StartStaticUnit(u) \/ StaticContextLoaded(u)
    \/ StartRouteUnit(u) \/ Routed(u) \/ Rendered(u) \/ RenderThrew(u)
    \/ StartWriteUnit(u) \/ MkdirReturned(u) \/ WriteFinished(u)

UnitStep == \E u \in Units : stepOf(u)

SpecFair == Spec /\ WF_pc(UnitStep)

\* The steps of prerender() itself: the continuation after each of its awaits
\* runs once the awaited promise is settled, and the calls it awaits outside
\* the limiter (loadPageRoutes, the onBeforePrerender() hook,
\* renderStatic404Page) return or throw. Every such step changes phase.
PipelineStep ==
    \/ CallPrerenderHooks
    \/ HandlePagesWithStaticRoutes
    \/ CallOnBeforePrerenderHook(OnBeforePrerenderResults)
    \/ WarnContradictoryNoPrerenderList
    \/ Prerender404Page
    \/ Render404Threw
    \/ WarnMissingPages

SpecLive == Spec /\ WF_pc(UnitStep) /\ WF_phase(PipelineStep)


(***************************************************************************)
(* What the hooks contributed, in the order in which it was applied.       *)
(***************************************************************************)
\* The pairs of one returned result that result.forEach merged: none when
\* the normaliser rejects the result, otherwise those before the first url
\* that fails assert(url.startsWith('/')).
appliedPairs(ret) ==
    LET r == normalizePrerenderResult(ret.raw, filePath(ret.p))
        bad == {i \in 1..Len(r.pairs) : ~startsWithSlash(r.pairs[i].url)}
        n == IF bad = {} THEN Len(r.pairs)
             ELSE (CHOOSE i \in bad : \A j \in bad : i <= j) - 1
    IN  IF r.ok
        THEN [i \in 1..n |-> [p |-> ret.p, url |-> r.pairs[i].url,
                               pageContext |-> r.pairs[i].pageContext]]
        ELSE <<>>

RECURSIVE contributionsOf(_)
contributionsOf(rets) ==
    IF rets = <<>> THEN <<>>
    ELSE appliedPairs(Head(rets)) \o contributionsOf(Tail(rets))

contributions == contributionsOf(hookReturns)

\* The positions of the contributions that name the url, and of those that
\* bring a pageContext for it.
namings(url) == {i \in 1..Len(contributions) : contributions[i].url = url}
writings(url) == {i \in namings(url) : contributions[i].pageContext # <<>>}

\* The value of key k in the last pageContext applied for the url that has k.
lastValue(url, k) ==
    LET has == {i \in writings(url) : k \in KeysOf(contributions[i].pageContext[1])}
        last == CHOOSE i \in has : \A j \in has : j <= i
    IN  CHOOSE v \in {kv[2] : kv \in contributions[last].pageContext[1]} :
            <<k, v>> \in contributions[last].pageContext[1]

contributedKeys(url) ==
    UNION {KeysOf(contributions[i].pageContext[1]) : i \in writings(url)}

\* The first context of each url: the one find() returns.
firstContexts ==
    {i \in 1..Len(prerenderPageContexts) :
        find(prerenderPageContexts, prerenderPageContexts[i].url) = i}

\* callPrerenderHooks() has resolved.
Phase1Completed ==
    /\ phase \notin {"start", "aborted"}
    /\ batchResolved("hook")

(***************************************************************************)
(* The claims.                                                             *)
(***************************************************************************)

\* C1: in every reachable state the number of units that have started and
\* not yet finished (hook, static-route, routing and write units alike) is at
\* most the concurrency ceiling.
C1_AtMostParallelRunning == Cardinality(Running) <= parallel

\* C1, witness: with a ceiling of two, two write units run while another
\* waits in the queue.
C1_Witness ==
    /\ parallel = 2
    /\ Cardinality({u \in Running : u.k = "write"}) = 2
    /\ queue # <<>>

\* C2 (as claimed): the store never holds two contexts of the same url.
C2_OneContextPerUrl ==
    \A i, j \in 1..Len(prerenderPageContexts) :
        prerenderPageContexts[i].url = prerenderPageContexts[j].url => i = j

\* C3 (as claimed): when a rendered page id is in the exclusion list the run
\* aborts with a usage error, and no document of an excluded page reaches the
\* output writer.
C3_ContradictionIsUsageError ==
    /\ (phase = "aborted" /\ batchResolved("route") /\ contradictions # {})
          => error.kind = "usage"
    /\ \A u \in UnitsOf("write") : ~inDoNotPrerenderList(htmlFiles[u.i].pageId)

\* C4 (as claimed): every hook result is either normalised to pairs whose
\* urls all start with '/', or rejected with a usage error that names the
\* hook's file.
C4_NormalizedUrlsStartWithSlash ==
    \A n \in 1..Len(hookReturns) :
        LET r == normalizePrerenderResult(hookReturns[n].raw, filePath(hookReturns[n].p))
        IN  IF r.ok
            THEN \A i \in 1..Len(r.pairs) : startsWithSlash(r.pairs[i].url)
            ELSE r.kind = "usage" /\ r.file = filePath(hookReturns[n].p)

\* The order of the fan-out phases, and where prerender() stands in it.
batchRank(k) ==
    CASE k = "hook" -> 1 [] k = "static" -> 2 [] k = "route" -> 4 [] k = "write" -> 6

phaseRank(ph) ==
    CASE ph = "start" -> 0
      [] ph = "callPrerenderHooks" -> 1
      [] ph = "handlePagesWithStaticRoutes" -> 2
      [] ph = "routeAndPrerender" -> 4
      [] ph = "prerender404Page" -> 5
      [] ph = "writeHtmlFile" -> 6
      [] ph = "done" -> 7
      [] ph = "aborted" -> 0
      [] ph = "called" -> 0

C5_NoLaterUnitBeforeDrained ==
    /\ \A u, v \in Units : batchRank(u.k) < batchRank(v.k) => pc[u] = "done"
    /\ phase # "aborted" =>
          \A u \in Units : batchRank(u.k) < phaseRank(phase) => pc[u] = "done"

C5_PhaseStartsWhenDrained ==
    (phase' # phase /\ phase' # "aborted") => \A u \in Units : pc[u] = "done"

\* C5: a unit of a later phase exists only when every unit of the earlier
\* phases is fulfilled, prerender() stands in a phase only when the units of
\* all earlier phases are fulfilled, and it moves to its next phase (the
\* serial ones included) only when every submitted unit is fulfilled; after a
\* failure it moves nowhere.
C5_NoCrossPhaseOverlap ==
    []C5_NoLaterUnitBeforeDrained /\ [][C5_PhaseStartsWhenDrained]_vars

\* C5, witness: a routing unit has failed while a sibling still runs.
C5_Witness ==
    \E u, v \in UnitsOf("route") : pc[u] = "failed" /\ v \in Running

\* C6: the user data of a url's context is, key by key, the value of the
\* last applied hook pageContext that has the key: the shallow union of what
\* the hooks contributed for the url, the hook merged later winning.
C6_ShallowUnionLaterWins ==
    \A i \in firstContexts :
        LET c == prerenderPageContexts[i]
        IN  /\ KeysOf(c.data) = contributedKeys(c.url)
            /\ \A kv \in c.data : kv[2] = lastValue(c.url, kv[1])

\* C6, witness: the hook of the second page returned first with {x: 2, y: 1}
\* for /a, the hook of the first page then brought {x: 1}.
C6_Witness ==
    /\ Len(hookReturns) = 2
    /\ hookReturns[1].p = "p2" /\ hookReturns[2].p = "p1"
    /\ \E i \in firstContexts :
          /\ prerenderPageContexts[i].url = UrlA
          /\ prerenderPageContexts[i].data = {<<"x", 1>>, <<"y", 1>>}

\* A page whose route is a Route Function or a parameterized Route String.
hasDynamicRoute(p) == p \in RoutedPages /\ staticUrl(pageRoutes[p]) = <<>>

hasDocument(p) == \E i \in 1..Len(htmlFiles) : htmlFiles[i].pageId = p

C7_WarnedIffMissing ==
    \A p \in Pages :
        p \in warned <=> /\ ~isPrerendered(p)
                         /\ ~inDoNotPrerenderList(p)
                         /\ ~isErrorPage(p)
                         /\ partial = Read(FALSE)

\* C7 (as claimed): after the missing-coverage check a page is warned about
\* exactly when it is in the inventory, not rendered, not excluded, not an
\* error page and the run is not partial; and a page with a dynamic route
\* to which no hook-returned url resolved has no document and is warned about
\* unless it is excluded or the run is partial.
C7_DynamicPageNeedsHookUrl ==
    phase = "done" =>
        /\ C7_WarnedIffMissing
        /\ \A p \in RoutedPages :
              ( /\ hasDynamicRoute(p)
                /\ \A u \in DOMAIN routeResult :
                      routeResult[u] = p =>
                        prerenderPageContexts[u.i]._prerenderSourceFile = null )
              => /\ ~hasDocument(p)
                 /\ p \in warned <=> (~inDoNotPrerenderList(p) /\ partial = Read(FALSE))

\* C7 (amended): the same, for a page with a dynamic route to which no url
\* of the store resolved, whether a hook returned the url or a static route
\* gave it.
C7_DynamicPageNeedsResolvedUrl ==
    phase = "done" =>
        /\ C7_WarnedIffMissing
        /\ \A p \in RoutedPages :
              ( /\ hasDynamicRoute(p)
                /\ \A u \in DOMAIN routeResult : routeResult[u] # p )
              => /\ ~hasDocument(p)
                 /\ p \in warned <=> (~inDoNotPrerenderList(p) /\ partial = Read(FALSE))

\* C7, witness: a run that is not partial ends with a document of one page
\* and a warning about the other, whose route is dynamic.
C7_Witness ==
    /\ phase = "done" /\ partial = Read(FALSE)
    /\ \E p \in RoutedPages : hasDynamicRoute(p) /\ p \in warned
    /\ \E p \in RoutedPages : hasDocument(p)

creation(url) == contributions[CHOOSE i \in namings(url) : \A j \in namings(url) : i <= j]

\* C9 (as claimed): once the hooks have resolved, every returned url has a
\* context; the context carries the file of the hook that created it, exactly
\* the keys of the pageContext it was created from, and no user data when
\* that pageContext was null.
C9_ContextCarriesCreatingPair ==
    Phase1Completed =>
        \A n \in 1..Len(contributions) :
            LET url == contributions[n].url
                i == find(prerenderPageContexts, url)
            IN  /\ i # 0
                /\ prerenderPageContexts[i]._prerenderSourceFile = filePath(creation(url).p)
                /\ KeysOf(prerenderPageContexts[i].data) =
                      IF creation(url).pageContext = <<>> THEN {}
                      ELSE KeysOf(creation(url).pageContext[1])

\* C9 (amended): once the hooks have resolved, every returned url has a
\* context; the context carries the file of the hook that created it and
\* exactly the keys of the non-null pageContexts the hooks returned for the
\* url: those of its creating pair when no other pair names the url, and no
\* user data when every pair for the url had a null pageContext.
C9_ContextCarriesContributions ==
    Phase1Completed =>
        \A n \in 1..Len(contributions) :
            LET url == contributions[n].url
                i == find(prerenderPageContexts, url)
                c == prerenderPageContexts[i]
            IN  /\ i # 0
                /\ c._prerenderSourceFile = filePath(creation(url).p)
                /\ KeysOf(c.data) = contributedKeys(url)
                /\ c._pageContextAlreadyProvidedByPrerenderHook <=> writings(url) # {}
                /\ Cardinality(namings(url)) = 1 =>
                      KeysOf(c.data) = IF contributions[n].pageContext = <<>> THEN {}
                                       ELSE KeysOf(contributions[n].pageContext[1])

\* C9, witness: both hooks returned ['/a', {url: '/b', pageContext: {x: 1}}]:
\* /a and /b each have one context, created by the hook that returned first.
C9_Witness ==
    /\ Phase1Completed
    /\ Len(contributions) = 4
    /\ Len(prerenderPageContexts) = 2
    /\ \A i \in 1..Len(prerenderPageContexts) :
          prerenderPageContexts[i]._prerenderSourceFile = filePath(hookReturns[1].p)
    /\ hookReturns[1].p = "p2"

\* The 404 document prerender404Page() appended, if any.
appended404 == {i \in 1..Len(htmlFiles) : htmlFiles[i].pageId = null}

\* C10 (as claimed): once phase 5 is complete no two documents have the
\* same url, and there are as many documents as distinct urls in the store,
\* plus the 404 document when it was appended.
C10_OneDocumentPerUrl ==
    phase \in {"writeHtmlFile", "done"} =>
        /\ \A i, j \in 1..Len(htmlFiles) : htmlFiles[i].url = htmlFiles[j].url => i = j
        /\ Len(htmlFiles) =
              Cardinality({prerenderPageContexts[i].url : i \in 1..Len(prerenderPageContexts)})
                + Cardinality(appended404)


\* The units that wait in the limiter's queue.
Queued == {u \in Units : pc[u] = "queued"}

C11_ErrorReachesPrerender ==
    /\ \A u \in DOMAIN thrown :
          /\ pc[u] = "failed"
          /\ phase = "aborted"
          /\ error \in {thrown[v] : v \in DOMAIN thrown}
    /\ \A u \in Units : pc[u] = "failed" => u \in DOMAIN thrown
    /\ Queued = {queue[i] : i \in 1..Len(queue)}
    /\ activeCount = Cardinality(Running)

\* C11: when a unit fails, its error (or that of a unit that failed before
\* it) is the one prerender() rejects with and the run is aborted; the
\* siblings stay where they were, queued or running, and each of them goes
\* on to start and to settle: after the abort every submitted unit is
\* eventually fulfilled or rejected, none is dropped from the queue.
C11_FailureDoesNotCancelSiblings ==
    /\ []C11_ErrorReachesPrerender
    /\ [][\A u \in Units : pc'[u] = "failed" /\ pc[u] # "failed" =>
              \A v \in Units \ {u} : pc'[v] = pc[v]]_pc
    /\ (phase = "aborted") ~> (\A u \in Units : pc[u] \in Settled)

\* C11, witness: with one slot, the hook unit of the first page failed and
\* the unit of the second page, queued behind it, has since run to its end.
C11_Witness ==
    /\ parallel = 1
    /\ phase = "aborted"
    /\ pc = (HookUnit("p1") :> "failed" @@ HookUnit("p2") :> "done")


C12_RefusedBeforeAnyPhase == phase = "aborted" /\ error.kind = "usage" /\ Units = {}

\* C12 (as claimed): once the options are checked, a call that gives
\* parallel or outDir is refused with a usage error before any unit is
\* submitted, and no warning is about parallel or outDir.
C12_ParallelAndOutDirRefused ==
    phase # "called" =>
        /\ (given(deprecatedOptions, "parallel") \/ given(deprecatedOptions, "outDir"))
              => C12_RefusedBeforeAnyPhase
        /\ deprecationWarnings \cap {"parallel", "outDir"} = {}

\* C12 (amended): once the options are checked, a call that gives parallel,
\* partial or noExtraDir, a root that is not an absolute path string or an
\* outDir that is not a string is refused with a usage error before any unit
\* is submitted; any other call goes on, warned exactly about those of base,
\* root and outDir that it gave, and reads none of them again.
C12_DeprecatedOptions ==
    phase # "called" =>
        LET o == deprecatedOptions
            refused ==
              \/ given(o, "parallel") \/ given(o, "partial") \/ given(o, "noExtraDir")
              \/ given(o, "root") /\ ~(o.root.type = "string" /\ isAbsolute(o.root.str))
              \/ given(o, "outDir") /\ o.outDir.type # "string"
        IN  IF refused
            THEN C12_RefusedBeforeAnyPhase
            ELSE /\ phase # "aborted"
                 /\ deprecationWarnings =
                       {prop \in {"base", "root", "outDir"} : given(o, prop)}
                 /\ phase = "callPrerenderHooks" => UnitsOf("hook") # {}

\* C12, witness: called with base, root and outDir, prerender() has warned
\* about the three and submitted the units of its first phase.
C12_Witness ==
    /\ phase = "callPrerenderHooks"
    /\ deprecationWarnings = {"base", "root", "outDir"}


\* The step in which warnContradictoryNoPrerenderList() runs: prerender()
\* leaves its fourth phase and no unit moves.
ContradictionCheckRuns == phase = "routeAndPrerender" /\ phase' # phase /\ pc' = pc

\* The step in which warnMissingPages() runs.
MissingCheckRuns == phase = "writeHtmlFile" /\ phase' = "done"

\* Every document is rendered, prerender404Page() has returned and every
\* write unit is fulfilled.
OutputComplete ==
    /\ phase = "writeHtmlFile"
    /\ batchResolved("route")
    /\ batchResolved("write")

\* C13 (as claimed): each of the two checks runs in a state where all
\* rendering, the 404 fallback included, and all writing are complete.
C13_ChecksAfterRenderingAndWriting ==
    [][(ContradictionCheckRuns \/ MissingCheckRuns) => OutputComplete]_vars

\* C13 (amended): the missing-coverage check runs in a state where all
\* rendering, the 404 fallback included, and all writing are complete; the
\* contradiction check runs when every routing and rendering unit is
\* fulfilled, before the 404 fallback and before any write unit is submitted.
C13_MissingCheckLastContradictionCheckBeforeWriting ==
    [][ /\ MissingCheckRuns => OutputComplete
        /\ ContradictionCheckRuns =>
              /\ batchResolved("route")
              /\ Len(htmlFiles) = Cardinality(UnitsOf("route"))
              /\ appended404 = {}
              /\ UnitsOf("write") = {} ]_vars

\* C13, witness: the run is over with the 404 fallback appended, its files
\* written and a page warned about.
C13_Witness ==
    /\ phase = "done"
    /\ appended404 # {}
    /\ \A i \in 1..Len(htmlFiles) : pc[WriteUnit(i, ".html")] = "done"
    /\ warned # {}


\* The user keys of the pageContext handed to prerenderPage(): the copy of
\* globalContext made at creation, under what the hooks merged on top.
passedToRenderer(pageContext) ==
    objectAssign(pageContext.globalContext, pageContext.data)

\* C14 (as claimed): every key/value onBeforePrerender() returned for the
\* global context is, with that value, in the pageContext of every document
\* rendered in phase 4.
C14_BeforeHookSeenByRenderer ==
    \A i \in 1..Len(htmlFiles) :
        (htmlFiles[i].pageId # null /\ globalContextAddendum # <<>>) =>
            globalContextAddendum[1] \subseteq
                passedToRenderer(prerenderPageContexts[htmlFiles[i].pageContext])


\* The pair applied last for the url.
lastMerge(url) == contributions[CHOOSE i \in namings(url) : \A j \in namings(url) : j <= i]

\* The urls that two hooks contributed.
contributedTwice ==
    {contributions[n].url : n \in {n \in 1..Len(contributions) :
        creation(contributions[n].url).p # lastMerge(contributions[n].url).p}}

\* C15 (as claimed): once the hooks have resolved, the context of a url
\* that two hooks contributed carries the file of the hook applied later.
C15_ProvenanceIsLaterHook ==
    Phase1Completed =>
        \A url \in contributedTwice :
            prerenderPageContexts[find(prerenderPageContexts, url)]._prerenderSourceFile
                = filePath(lastMerge(url).p)

\* C15 (amended): at every moment of phase 1 and after it, the context of
\* a url that two hooks contributed carries the file of the hook that
\* created it, not the file of the hook applied later.
C15_ProvenanceIsCreatingHook ==
    \A url \in contributedTwice :
        LET c == prerenderPageContexts[find(prerenderPageContexts, url)]
        IN  /\ c._prerenderSourceFile = filePath(creation(url).p)
            /\ c._prerenderSourceFile # filePath(lastMerge(url).p)

\* C15, witness: the hook of the first page created the context of /a, the
\* hook of the second page then merged {x: 2, y: 1} into it.
C15_Witness ==
    /\ Phase1Completed
    /\ contributedTwice = {UrlA}
    /\ \E i \in firstContexts :
          /\ prerenderPageContexts[i].url = UrlA
          /\ prerenderPageContexts[i]._prerenderSourceFile = filePath("p1")
          /\ prerenderPageContexts[i].data = {<<"x", 2>>, <<"y", 1>>}


\* C16 (as claimed): a unit writes to the store in the step of its lookup,
\* so what the lookup found still holds at the write: a static-route unit
\* that pushes the context of its url does so while the store has no
\* context of that url, and while a unit waits between its lookup and its
\* push no other unit changes the store.
C16_LookupAndWriteAreOneStep ==
    [][\A u \in UnitsOf("static") :
          pc[u] = "loadPageFilesServer" =>
            /\ pc'[u] = "done" =>
                  find(prerenderPageContexts, staticUrl(pageRoutes[u.p])[1]) = 0
            /\ pc'[u] = pc[u] => prerenderPageContexts' = prerenderPageContexts]_vars


\* handlePagesWithStaticRoutes() has resolved.
Phase2Completed ==
    /\ phase = "handlePagesWithStaticRoutes"
    /\ UnitsOf("static") # {}
    /\ batchResolved("static")

\* The contexts phase 2 created: those without a source file.
staticContexts ==
    {i \in 1..Len(prerenderPageContexts) :
        prerenderPageContexts[i]._prerenderSourceFile = null}

C17_StaticPagesHaveContexts ==
    Phase2Completed =>
        /\ \A p \in RoutedPages :
              LET url == staticUrl(pageRoutes[p])
              IN  (url # <<>> /\ ~inDoNotPrerenderList(p) /\ namings(url[1]) = {})
                    => \E i \in staticContexts : prerenderPageContexts[i].url = url[1]
        /\ \A i \in staticContexts :
              LET c == prerenderPageContexts[i]
              IN  /\ c._pageId \in RoutedPages
                  /\ staticUrl(pageRoutes[c._pageId]) = <<c.url>>
                  /\ ~inDoNotPrerenderList(c._pageId)
                  /\ namings(c.url) = {}

C17_Phase2OnlyAppends ==
    phase = "handlePagesWithStaticRoutes" =>
        /\ Len(prerenderPageContexts') >= Len(prerenderPageContexts)
        /\ \A i \in 1..Len(prerenderPageContexts) :
              prerenderPageContexts'[i] = prerenderPageContexts[i]

\* C17: once phase 2 has resolved, every page with a static url that is not
\* excluded and whose url no hook contributed has a context of that url
\* without a source file; every context without a source file belongs to
\* such a page (none to a page with a Route Function or a parameterized
\* Route String, none to an excluded page, none for a url a hook
\* contributed); and no step of phase 2 changes a context already in the
\* store.
C17_StaticRoutesDiscovered ==
    []C17_StaticPagesHaveContexts /\ [][C17_Phase2OnlyAppends]_vars

\* C17, witness: a hook contributed /a, which is also the first page's
\* filesystem route, and /b; phase 2 added the context of /404, the static
\* route of the second page, and left the two others as they were.
C17_Witness ==
    /\ Phase2Completed
    /\ pageRoutes = [p \in RoutedPages |->
                       IF p = "p1" THEN FilesystemRoute(UrlA) ELSE RouteString(Url404)]
    /\ Len(prerenderPageContexts) = 3
    /\ prerenderPageContexts[1].url = UrlA
    /\ prerenderPageContexts[1]._prerenderSourceFile # null
    /\ prerenderPageContexts[3] = Ctx(Url404, null, "p2")


\* C18: a page whose .page.server file exports doNotPrerender is in the
\* exclusion list exactly once (and only such pages are in it); its unit
\* ended without calling its prerender() hook, so the hook returned nothing
\* and no context carries the page's file as its source.
C18_ExcludedPageHookNeverCalled ==
    /\ \A i \in 1..Len(doNotPrerenderList) :
          fileExports[doNotPrerenderList[i]].doNotPrerender
    /\ \A p \in Pages :
          fileExports[p].doNotPrerender =>
            /\ Cardinality({i \in 1..Len(doNotPrerenderList) : doNotPrerenderList[i] = p}) = 1
            /\ pc[HookUnit(p)] = "done"
            /\ \A n \in 1..Len(hookReturns) : hookReturns[n].p # p
            /\ \A i \in 1..Len(prerenderPageContexts) :
                  prerenderPageContexts[i]._prerenderSourceFile # filePath(p)

\* C18, witness: the first page exports doNotPrerender next to a
\* prerender() hook; the hook of the second page has returned its urls.
C18_Witness ==
    /\ fileExports["p1"] = [doNotPrerender |-> TRUE, prerender |-> "function"]
    /\ doNotPrerenderList = <<"p1">>
    /\ Len(hookReturns) = 1 /\ hookReturns[1].p = "p2"
    /\ Len(prerenderPageContexts) = 2
    /\ Phase1Completed


\* C19: once prerender404Page() has returned, at most one document has a
\* null page id; it is the last one, its url is /404, it has no serialized
\* context and no extra directory, and no document before it has the url
\* /404; every other document has the page id of its context, which is a
\* page of the inventory and a key of prerenderPageIds.
C19_NullPageIdOnlyFor404 ==
    phase \in {"writeHtmlFile", "done"} =>
        /\ Cardinality(appended404) <= 1
        /\ \A i \in appended404 :
              /\ i = Len(htmlFiles)
              /\ htmlFiles[i].url = Url404
              /\ ~htmlFiles[i].pageContextSerialized
              /\ htmlFiles[i].doNotCreateExtraDirectory
              /\ \A j \in 1..(i - 1) : htmlFiles[j].url # Url404
        /\ \A i \in (1..Len(htmlFiles)) \ appended404 :
              /\ htmlFiles[i].pageId \in RoutedPages
              /\ htmlFiles[i].pageId = prerenderPageContexts[htmlFiles[i].pageContext]._pageId
              /\ isPrerendered(htmlFiles[i].pageId)

\* C19, witness: phase 4 rendered two documents, neither with the url /404,
\* and the 404 document was appended.
C19_Witness ==
    /\ phase = "writeHtmlFile"
    /\ Len(htmlFiles) = 3
    /\ appended404 = {3}


\* The files of the documents: each document's .html file and, when its
\* serialized context is not null, its .pageContext.json file.
producedFiles ==
    {[i |-> i, ext |-> ".html"] : i \in 1..Len(htmlFiles)}
      \cup {[i |-> i, ext |-> ".pageContext.json"] :
               i \in {i \in 1..Len(htmlFiles) : htmlFiles[i].pageContextSerialized}}

\* 1 when the unit's position is one of `at`, 0 otherwise.
onceAt(u, at) == IF pc[u] \in at THEN 1 ELSE 0

\* C20: there is one write unit per produced file. With a sink no mkdir()
\* and no writeFile() is ever called, and the sink has been called exactly
\* once for the file of every unit that has started, never for another;
\* without a sink the sink is never called, and mkdir() and writeFile() have
\* each been called exactly once for the file of every unit that has reached
\* them. When the run is done every produced file has had exactly one call of
\* the sink, or exactly one mkdir() and one writeFile().
C20_SinkReplacesStorage ==
    /\ phase \in {"writeHtmlFile", "done"} =>
          {File(u) : u \in UnitsOf("write")} = producedFiles
    /\ onPagePrerender = Read(TRUE) =>
          /\ fsCalls = <<>>
          /\ DOMAIN sinkCalls \subseteq producedFiles
          /\ \A u \in UnitsOf("write") :
                count(sinkCalls, File(u)) = onceAt(u, {"onPagePrerender", "done"})
    /\ onPagePrerender # Read(TRUE) =>
          /\ sinkCalls = <<>>
          /\ \A c \in DOMAIN fsCalls : [i |-> c.i, ext |-> c.ext] \in producedFiles
          /\ \A u \in UnitsOf("write") :
                /\ count(fsCalls, FsCall("mkdir", u)) = onceAt(u, {"mkdir", "writeFile", "done"})
                /\ count(fsCalls, FsCall("writeFile", u)) = onceAt(u, {"writeFile", "done"})

\* C20, witness: with a sink, the run is done with a document that has a
\* serialized context and the 404 document, which has none: the sink was
\* called once for each of the three files.
C20_Witness ==
    /\ phase = "done"
    /\ onPagePrerender = Read(TRUE)
    /\ Cardinality(producedFiles) = 3
    /\ appended404 # {}
    /\ \A f \in producedFiles : count(sinkCalls, f) = 1

\* The write units whose sink invocation has been made and has not resolved.
inSink == {u \in UnitsOf("write") : pc[u] = "onPagePrerender"}

\* C21: with a sink and parallel >= 2, as long as a sink invocation made for
\* one file has not resolved, the _prerenderResult field of the context it was
\* given holds that file's path and content: the write of the document's
\* other file does not overwrite it meanwhile.
C21_SinkSeesItsOwnFile ==
    parallel >= 2 =>
        \A u \in inSink : prerenderResult[pageContextOf(u.i)] = PrerenderResult(u)

\* The output writer has acted: a write was submitted to the limiter, or the
\* sink or the file system was called.
writerActed == UnitsOf("write") # {} \/ sinkCalls # <<>> \/ fsCalls # <<>>

\* Phases 1 to 5 and the contradiction check completed without error.
discoveryAndRenderingSucceeded ==
    /\ phase \in {"writeHtmlFile", "done"}
    /\ \A k \in {"hook", "static", "route"} : batchResolved(k)
    /\ thrown = <<>>
    /\ error = NoError
    /\ contradictions = {}

\* C22: no unit of the output writer starts unless phases 1 to 5 and the
\* contradiction check completed without error: a run that aborts on a hook
\* failure, a malformed hook result, an unmatched url, an invalid before-hook,
\* a renderer fault or a contradictory exclusion submits no write, writes no
\* file and calls the sink for none, whatever its sibling units go on doing.
C22_NoWriteUnlessRenderingSucceeded ==
    /\ writerActed => discoveryAndRenderingSucceeded
    /\ phase = "aborted" =>
          UnitsOf("write") = {} /\ sinkCalls = <<>> /\ fsCalls = <<>>

\* C22, witness: a routing unit failed and the run aborted; its sibling went
\* on and rendered a document; every unit is settled and nothing was written.
C22_Witness ==
    /\ phase = "aborted"
    /\ \E u \in UnitsOf("route") : pc[u] = "failed"
    /\ htmlFiles # <<>>
    /\ \A u \in Units : pc[u] \in Settled
    /\ ~writerActed

\* prerender() returned or rejected.
terminated == phase \in {"done", "aborted"}

\* A slot is held by a unit that is at one of its awaits, and the call it
\* awaits there is not another unit of the limiter: its next step is enabled
\* whatever the other units do.
slotsHeldByUnitsThatCanStep ==
    /\ activeCount = Cardinality(Running)
    /\ \A u \in Running : ENABLED stepOf(u)

\* C23: when every hook, loader, router, renderer, sink and file system call
\* returns, every unit queued on the limiter eventually starts (from some
\* point on every submitted unit is settled) and the pipeline terminates, at
\* the missing-pages check or at an abort; no unit holds a slot while it
\* waits for another unit of the limiter, with parallel = 1 and documents of
\* two files as well.
C23_EveryUnitStartsAndPipelineTerminates ==
    /\ []slotsHeldByUnitsThatCanStep
    /\ <>[](terminated /\ \A u \in Units : pc[u] \in Settled)

\* C23, witness: with parallel = 1 the run is done and both files of a
\* document were written one after the other.
C23_Witness ==
    /\ parallel = 1
    /\ phase = "done"
    /\ \E u, v \in UnitsOf("write") : u.i = v.i /\ u # v /\ pc[u] = "done" /\ pc[v] = "done"

====
